---- MODULE Spec2Model ----
(***************************************************************************)
(* ArtiCast: TEI-XML linearization (process_paper_section) and the        *)
(* single-shot pipeline of main() in ArtiCast.py.                         *)
(*                                                                         *)
(* An XML element tree is modelled as the sequence section.iter() yields: *)
(* the elements in document (pre-)order, each with its depth below the    *)
(* section element.  A string is a sequence of tokens; a token is either  *)
(* one whitespace character or a chunk that starts and ends with a        *)
(* non-whitespace character, so str.strip() acts on whole tokens.         *)
(* Optional values (str | None) are records with a "present" flag.        *)
(* Assertions are active (the script runs under plain python3).           *)
(***************************************************************************)
EXTENDS Integers, Sequences, FiniteSets, TLC

VARIABLES pc, status, doc, body_element, rough_sections, runs,
          rough_text, contents, response, revised_text, output_file,
          error, grobid_calls, gemini_calls

vars == <<pc, status, doc, body_element, rough_sections, runs,
          rough_text, contents, response, revised_text, output_file,
          error, grobid_calls, gemini_calls>>

(***************************************************************************)
(* Bounds of the model.                                                    *)
(***************************************************************************)
MaxNodes == 3
MaxSections == 3

(***************************************************************************)
(* Strings and optional values.                                            *)
(***************************************************************************)
None == [present |-> FALSE, val |-> <<>>]
Some(s) == [present |-> TRUE, val |-> s]
NoAttr == [present |-> FALSE, val |-> ""]
Attr(v) == [present |-> TRUE, val |-> v]

Whitespace == {" ", "\n"}

RECURSIVE lstrip(_)
lstrip(s) ==
    IF s # <<>> /\ Head(s) \in Whitespace THEN lstrip(Tail(s)) ELSE s

RECURSIVE rstrip(_)
rstrip(s) ==
    IF s # <<>> /\ s[Len(s)] \in Whitespace
    THEN rstrip(SubSeq(s, 1, Len(s) - 1))
    ELSE s

strip(s) == rstrip(lstrip(s))

(***************************************************************************)
(* Node classifier.                                                        *)
(***************************************************************************)
TEI == "{http://www.tei-c.org/ns/1.0}"

is_heading(element) == element.tag = TEI \o "head"

is_paragraph(element) == element.tag = TEI \o "p"

is_formula(element) == element.tag = TEI \o "formula"

is_bib_reference_any_type(element) == element.tag = TEI \o "ref"
is_bib_reference(element) ==
    /\ element.tag = TEI \o "ref"
    /\ element.type = Attr("bibr")

(***************************************************************************)
(* Section linearizer.  The accumulator carries the result list and, as   *)
(* history, the indices of the elements visited and for every appended    *)
(* line the element and slot ("text" / "tail") it came from.              *)
(***************************************************************************)
NoError == "none"

heading_line_raw(element) == <<"[[HEADING: ">> \o element.text.val \o <<"]]">>
heading_line(element) ==
    <<"[[HEADING: ">> \o strip(element.text.val) \o <<"]]">>

formula_line(element) ==
    <<"[[FORMULA: ">> \o strip(element.text.val) \o <<"]]">>

paragraph_asserts_text_only(element) == element.text = None
paragraph_asserts_tail_only(element) == element.tail = None
paragraph_asserts(element) == element.text = None /\ element.tail = None

Emit(acc, j, slot, line) ==
    [acc EXCEPT !.result = Append(@, line),
                !.origin = Append(@, <<j, slot>>)]

Raise(acc, j, err) == [acc EXCEPT !.err = err, !.at = j]

\* lines 91-113: the branch on the element's role
head_branch(element, j, acc) ==
    IF is_heading(element) THEN
        IF element.text = None THEN Raise(acc, j, "AssertionError")
        ELSE Emit(acc, j, "text", heading_line(element))
    ELSE IF is_paragraph(element) THEN
        IF ~paragraph_asserts(element) THEN Raise(acc, j, "AssertionError")
        ELSE Emit(acc, j, "text", <<>>)
    ELSE IF is_formula(element) THEN
        IF element.text = None THEN Raise(acc, j, "AssertionError")
        ELSE Emit(acc, j, "text", formula_line(element))
    ELSE IF is_bib_reference(element) THEN acc
    ELSE
        IF element.text # None /\ strip(element.text.val) # <<>>
        THEN Emit(acc, j, "text", strip(element.text.val))
        ELSE acc

\* lines 114-118: the element's tail
tail_branch(element, j, acc) ==
    IF element.tail # None /\ strip(element.tail.val) # <<>>
    THEN Emit(acc, j, "tail", strip(element.tail.val))
    ELSE acc

\* one iteration of the loop over section.iter()
visit(element, j, acc) ==
    LET visited == [acc EXCEPT !.visited = Append(@, j)]
        headed == head_branch(element, j, visited)
    IN  IF headed.err # NoError THEN headed
        ELSE tail_branch(element, j, headed)

RECURSIVE iter_loop(_, _, _)
iter_loop(section, j, acc) ==
    IF j > Len(section) \/ acc.err # NoError THEN acc
    ELSE iter_loop(section, j + 1, visit(section[j], j, acc))

EmptyRun == [err |-> NoError, at |-> 0, result |-> <<>>,
             visited |-> <<>>, origin |-> <<>>]

skipped_tag_note_only(tag) == tag = TEI \o "note"
skipped_tag(tag) == tag \in {TEI \o "note", TEI \o "figure"}

process_paper_section(section) ==
    IF skipped_tag(section[1].tag) THEN EmptyRun
    ELSE IF section[1].tag = TEI \o "div" THEN iter_loop(section, 1, EmptyRun)
    ELSE Raise(EmptyRun, 1, "ValueError")

(***************************************************************************)
(* Input documents.                                                        *)
(***************************************************************************)
El(tag, type, text, tail) ==
    [tag |-> tag, type |-> type, text |-> text, tail |-> tail, depth |-> 0]

At(element, d) == [element EXCEPT !.depth = d]

WS == Some(<<"\n", " ">>)
TextA == Some(<<" ", "a", "\n">>)
TailB == Some(<<"b", " ">>)

InnerKinds ==
    {El(TEI \o tag, NoAttr, text, None) :
        tag \in {"head", "formula"}, text \in {None, WS, TextA}}
    \cup {El(TEI \o "p", NoAttr, tt[1], tt[2]) :
        tt \in {<<None, None>>, <<WS, None>>, <<TextA, None>>,
                <<None, TailB>>}}
    \cup {El(TEI \o "ref", type, TextA, tail) :
        type \in {Attr("bibr"), Attr("figure"), NoAttr},
        tail \in {None, TailB}}
    \cup {El(TEI \o "s", NoAttr, text, tail) :
        text \in {None, WS, TextA}, tail \in {None, WS, TailB}}

DivRoot == El(TEI \o "div", NoAttr, WS, None)

\* the depth sequences of the n elements below a section element
DepthSeqs(n) ==
    {ds \in [1..n -> 1..n] :
        /\ n > 0 => ds[1] = 1
        /\ \A i \in 2..n : ds[i] <= ds[i - 1] + 1}

Tree(kinds, depths) ==
    <<DivRoot>> \o [i \in 1..Len(kinds) |-> At(kinds[i], depths[i])]

WideSections ==
    { <<El(TEI \o "note", NoAttr, None, None),
        At(El(TEI \o "head", NoAttr, None, None), 1)>>,
      <<El(TEI \o "figure", NoAttr, None, None),
        At(El(TEI \o "p", NoAttr, TextA, None), 1)>>,
      <<El(TEI \o "list", NoAttr, None, None)>>,
      <<El("div", NoAttr, TextA, None)>>,
      <<El(TEI \o "div", NoAttr, None, None)>>,
      <<El(TEI \o "div", NoAttr, TextA, TailB)>>,
      <<El(TEI \o "div", NoAttr, None, None),
        At(El(TEI \o "p", NoAttr, None, None), 1)>>,
      <<El(TEI \o "div", NoAttr, None, None),
        At(El(TEI \o "p", NoAttr, TextA, None), 1)>>,
      <<El(TEI \o "div", NoAttr, None, None),
        At(El(TEI \o "head", NoAttr, WS, None), 1)>> }

\* <div><head>Intro</head><p>Hello <formula>x=1</formula> world.</p></div>
IntroSection ==
    <<El(TEI \o "div", NoAttr, None, None),
      At(El(TEI \o "head", NoAttr, Some(<<"Intro">>), None), 1),
      At(El(TEI \o "p", NoAttr, Some(<<"Hello", " ">>), None), 1),
      At(El(TEI \o "formula", NoAttr, Some(<<"x=1">>),
            Some(<<" ", "world.">>)), 2)>>

\* <div><head>IV. Data Analysis</head><formula>E = m c 2</formula></div>
PlaceholderSection ==
    <<El(TEI \o "div", NoAttr, None, None),
      At(El(TEI \o "head", NoAttr, Some(<<"IV. Data Analysis">>), None), 1),
      At(El(TEI \o "formula", NoAttr, Some(<<"E = m c 2">>), None), 1)>>

RECURSIVE SeqsUpTo(_, _)
SeqsUpTo(S, n) ==
    IF n = 0 THEN {<<>>}
    ELSE LET shorter == SeqsUpTo(S, n - 1)
         IN  shorter \cup {Append(b, x) : b \in shorter, x \in S}

WideBodies ==
    SeqsUpTo(WideSections, MaxSections)
    \cup {<<IntroSection>>, <<PlaceholderSection>>}

NoBody == <<>>

\* the parsed extraction result: how many text elements the root has, how
\* many body elements the text element has, and the body's sections
Document(body) == [ntext |-> 1, nbody |-> 1, body |-> body]

MalformedDocuments ==
    {[ntext |-> c[1], nbody |-> c[2], body |-> NoBody] :
        c \in {<<0, 0>>, <<2, 1>>, <<1, 0>>, <<1, 2>>}}

NoDocument == [ntext |-> 0, nbody |-> 0, body |-> NoBody]

Candidate(parts) == [content |-> Some(parts)]
Part(text) == [text |-> text]

Responses ==
    { [candidates |-> None],
      [candidates |-> Some(<<>>)],
      [candidates |-> Some(<<Candidate(<<Part(Some(<<"r">>))>>),
                             Candidate(<<Part(Some(<<"r">>))>>)>>)],
      [candidates |-> Some(<<Candidate(<<Part(Some(<<"r">>)),
                                         Part(Some(<<"r">>))>>)>>)],
      [candidates |-> Some(<<Candidate(<<Part(None)>>)>>)],
      [candidates |-> Some(<<Candidate(<<Part(Some(<<" ", "r", "\n">>))>>)>>)] }

NoResponse == [candidates |-> None]

(***************************************************************************)
(* main(): the pipeline, one action per step.                              *)
(***************************************************************************)
RECURSIVE join(_)
join(lines) ==
    IF lines = <<>> THEN <<>>
    ELSE IF Len(lines) = 1 THEN lines[1]
    ELSE lines[1] \o <<"\n">> \o join(Tail(lines))

separator_if_both(rough, section) ==
    IF rough # <<>> /\ section # <<>> THEN <<<<>>>> ELSE <<>>
\* lines 157-158
separator(rough, section) == IF rough # <<>> THEN <<<<>>>> ELSE <<>>

\* lines 155-159
RECURSIVE assemble(_, _)
assemble(sections, rough) ==
    IF sections = <<>> THEN rough
    ELSE assemble(Tail(sections),
                  rough \o separator(rough, Head(sections)) \o Head(sections))

status_ok(s) == s = 200

one_any(xs) == Len(xs) >= 1
one(xs) == Len(xs) = 1

\* lines 171-176
response_error(r) ==
    IF r.candidates = None THEN "AssertionError"
    ELSE IF ~one(r.candidates.val) THEN "ValueError"
    ELSE IF r.candidates.val[1].content = None THEN "AssertionError"
    ELSE IF ~one(r.candidates.val[1].content.val) THEN "ValueError"
    ELSE IF r.candidates.val[1].content.val[1].text = None
         THEN "AssertionError"
    ELSE NoError

Abort(err) ==
    /\ pc' = "aborted"
    /\ error' = err

Init ==
    /\ pc = "start"
    /\ status = 0
    /\ doc = NoDocument
    /\ body_element = NoBody
    /\ rough_sections = <<>>
    /\ runs = <<>>
    /\ rough_text = <<>>
    /\ contents = None
    /\ response = NoResponse
    /\ revised_text = None
    /\ output_file = None
    /\ error = NoError
    /\ grobid_calls = 0
    /\ gemini_calls = 0

\* lines 126-128
CheckInput ==
    /\ pc = "start"
    /\ \E isfile \in BOOLEAN :
        IF isfile THEN pc' = "checked" /\ error' = error
        ELSE Abort("AssertionError")
    /\ UNCHANGED <<status, doc, body_element, rough_sections, runs,
                   rough_text, contents, response, revised_text,
                   output_file, grobid_calls, gemini_calls>>

\* lines 130-145
Extract ==
    /\ pc = "checked"
    /\ grobid_calls' = grobid_calls + 1
    /\ \E s \in {200, 500} :
        /\ status' = s
        /\ IF status_ok(s)
           THEN /\ pc' = "extracted"
                /\ error' = error
                /\ \/ \E n \in 0..(MaxNodes - 1) :
                        \E kinds \in [1..n -> InnerKinds],
                           depths \in DepthSeqs(n) :
                            doc' = Document(<<Tree(kinds, depths)>>)
                   \/ \E body \in WideBodies : doc' = Document(body)
                   \/ \E d \in MalformedDocuments : doc' = d
           ELSE doc' = NoDocument /\ Abort("AssertionError")
    /\ UNCHANGED <<body_element, rough_sections, runs, rough_text, contents,
                   response, revised_text, output_file, gemini_calls>>

\* lines 147-150
Parse ==
    /\ pc = "extracted"
    /\ IF doc.ntext = 1 /\ doc.nbody = 1
       THEN body_element' = doc.body /\ pc' = "parsed" /\ error' = error
       ELSE body_element' = body_element /\ Abort("ValueError")
    /\ UNCHANGED <<status, doc, rough_sections, runs, rough_text, contents,
                   response, revised_text, output_file, grobid_calls,
                   gemini_calls>>

\* lines 153-154, one iteration
LinearizeSection ==
    /\ pc = "parsed"
    /\ Len(rough_sections) < Len(body_element)
    /\ LET run == process_paper_section(
                      body_element[Len(rough_sections) + 1])
       IN  /\ runs' = Append(runs, run)
           /\ IF run.err = NoError
              THEN /\ rough_sections' = Append(rough_sections, run.result)
                   /\ UNCHANGED <<pc, error>>
              ELSE /\ rough_sections' = rough_sections
                   /\ Abort(run.err)
    /\ UNCHANGED <<status, doc, body_element, rough_text, contents, response,
                   revised_text, output_file, grobid_calls, gemini_calls>>

\* lines 155-160
Assemble ==
    /\ pc = "parsed"
    /\ Len(rough_sections) = Len(body_element)
    /\ rough_text' = assemble(rough_sections, <<>>)
    /\ pc' = "assembled"
    /\ UNCHANGED <<status, doc, body_element, rough_sections, runs, contents,
                   response, revised_text, output_file, error, grobid_calls,
                   gemini_calls>>

\* lines 162-169
Rewrite ==
    /\ pc = "assembled"
    /\ contents' = Some(join(rough_text))
    /\ gemini_calls' = gemini_calls + 1
    /\ \E r \in Responses : response' = r
    /\ pc' = "rewritten"
    /\ UNCHANGED <<status, doc, body_element, rough_sections, runs,
                   rough_text, revised_text, output_file, error,
                   grobid_calls>>

\* lines 171-177
ReadResponse ==
    /\ pc = "rewritten"
    /\ IF response_error(response) = NoError
       THEN /\ revised_text' =
                  Some(strip(response.candidates.val[1].content.val[1].text.val))
            /\ pc' = "revised"
            /\ error' = error
       ELSE /\ revised_text' = revised_text
            /\ Abort(response_error(response))
    /\ UNCHANGED <<status, doc, body_element, rough_sections, runs,
                   rough_text, contents, response, output_file, grobid_calls,
                   gemini_calls>>

\* lines 179-186
Save ==
    /\ pc = "revised"
    /\ output_file' = revised_text
    /\ pc' = "saved"
    /\ UNCHANGED <<status, doc, body_element, rough_sections, runs,
                   rough_text, contents, response, revised_text, error,
                   grobid_calls, gemini_calls>>

Next ==
    \/ CheckInput
    \/ Extract
    \/ Parse
    \/ LinearizeSection
    \/ Assemble
    \/ Rewrite
    \/ ReadResponse
    \/ Save

Spec == Init /\ [][Next]_vars

TypeOK == pc \in {"start", "checked", "extracted", "parsed", "assembled",
                  "rewritten", "revised", "saved", "aborted"}

(***************************************************************************)
(* Vocabulary of the properties.                                           *)
(***************************************************************************)
Processed == 1..Len(runs)

Sec(k) == body_element[k]

IsDiv(k) == Sec(k)[1].tag = TEI \o "div"

Succeeded(k) == runs[k].err = NoError

\* index of the last element of the subtree rooted at element j
SubtreeEnd(section, j) ==
    CHOOSE m \in j..Len(section) :
        /\ \A i \in (j + 1)..m : section[i].depth > section[j].depth
        /\ m < Len(section) => section[m + 1].depth <= section[j].depth

Descendants(section, j) == (j + 1)..SubtreeEnd(section, j)

\* positions in the run's result of the lines that came from a slot
LinesOf(run, j, slot) ==
    {i \in 1..Len(run.origin) : run.origin[i] = <<j, slot>>}

Blank(t) == t = None \/ strip(t.val) = <<>>

\* the characters of a token sequence as one string
RECURSIVE Flat(_)
Flat(tokens) ==
    IF tokens = <<>> THEN "" ELSE Head(tokens) \o Flat(Tail(tokens))

FlatLines(lines) == [i \in 1..Len(lines) |-> Flat(lines[i])]

Assembled == pc \in {"assembled", "rewritten", "revised", "saved"}
             \/ (pc = "aborted" /\ gemini_calls = 1)

\* where the text of a slot stands in the document: e1 before e2
DocBefore(section, e1, e2) ==
    LET j == e1[1]
        k == e2[1]
    IN  IF e1[2] = "text" /\ e2[2] = "text" THEN j < k
        ELSE IF e1[2] = "text" /\ e2[2] = "tail"
             THEN j <= SubtreeEnd(section, k)
        ELSE IF e1[2] = "tail" /\ e2[2] = "text"
             THEN k > SubtreeEnd(section, j)
        ELSE IF k < j /\ j <= SubtreeEnd(section, k) THEN TRUE
        ELSE IF j < k /\ k <= SubtreeEnd(section, j) THEN FALSE
        ELSE j < k

(***************************************************************************)
(* C1: when the sections are assembled, a blank separator line is put     *)
(* before a section's lines only if the output so far is non-empty and    *)
(* the section produced at least one line.                                *)
(***************************************************************************)
RECURSIVE ClaimedAssembly(_, _)
ClaimedAssembly(sections, rough) ==
    IF sections = <<>> THEN rough
    ELSE ClaimedAssembly(Tail(sections),
            rough \o separator_if_both(rough, Head(sections))
                  \o Head(sections))

C1_SeparatorOnlyBetweenNonEmpty ==
    Assembled => rough_text = ClaimedAssembly(rough_sections, <<>>)

(***************************************************************************)
(* C2: the lines of a linearized div come out in document order; a        *)
(* node's tail line comes after every line of the node's descendants.     *)
(***************************************************************************)
C2_DocumentOrder ==
    \A k \in Processed :
        (IsDiv(k) /\ Succeeded(k)) =>
            \A a, b \in 1..Len(runs[k].origin) :
                a < b => DocBefore(Sec(k), runs[k].origin[a],
                                   runs[k].origin[b])

(***************************************************************************)
(* C3 as stated: the Intro document linearizes without error to           *)
(* "[[HEADING: Intro]]", "", "Hello ", "[[FORMULA: x=1]]", " world.".      *)
(***************************************************************************)
IntroLines ==
    <<"[[HEADING: Intro]]", "", "Hello ", "[[FORMULA: x=1]]", " world.">>

C3_IntroLinearizes ==
    (body_element = <<IntroSection>> /\ Len(runs) = 1) =>
        /\ Succeeded(1)
        /\ FlatLines(runs[1].result) = IntroLines

(***************************************************************************)
(* C3 amended: linearizing the Intro document is fatal at the p element,  *)
(* whose own text "Hello " is present; only the heading was reached, no   *)
(* line sequence is returned and the run stops before the rewrite call.   *)
(***************************************************************************)
C3_IntroIsFatal ==
    (body_element = <<IntroSection>> /\ Len(runs) = 1) =>
        /\ runs[1].err = "AssertionError"
        /\ runs[1].at = 3
        /\ FlatLines(runs[1].result) = <<"[[HEADING: Intro]]">>
        /\ rough_sections = <<>>
        /\ pc = "aborted"
        /\ gemini_calls = 0
        /\ output_file = None

C3_Witness ==
    /\ body_element = <<IntroSection>>
    /\ Len(runs) = 1
    /\ pc = "aborted"

(***************************************************************************)
(* C4: a visited heading or formula whose text is absent or blank after   *)
(* stripping makes the linearization fatal at that node.                  *)
(***************************************************************************)
C4_BlankTitleIsFatal ==
    \A k \in Processed :
        IsDiv(k) =>
            \A i \in 1..Len(runs[k].visited) :
                LET j == runs[k].visited[i]
                    element == Sec(k)[j]
                IN  (/\ element.tag \in {TEI \o "head", TEI \o "formula"}
                     /\ Blank(element.text))
                    => (runs[k].err # NoError /\ runs[k].at = j
                        /\ LinesOf(runs[k], j, "text") = {})

(***************************************************************************)
(* C5: a visited p with own text or tail text is fatal; a p with neither  *)
(* emits exactly one empty line and its descendants are visited after it, *)
(* in document order.                                                      *)
(***************************************************************************)
C5_ParagraphBoundary ==
    \A k \in Processed :
        IsDiv(k) =>
            \A i \in 1..Len(runs[k].visited) :
                LET run == runs[k]
                    j == run.visited[i]
                    element == Sec(k)[j]
                IN  element.tag = TEI \o "p" =>
                        IF element.text # None \/ element.tail # None
                        THEN /\ run.err = "AssertionError"
                             /\ run.at = j
                             /\ LinesOf(run, j, "text") = {}
                             /\ LinesOf(run, j, "tail") = {}
                             /\ Len(rough_sections) < k
                             /\ pc = "aborted"
                             /\ output_file = None
                        ELSE /\ Cardinality(LinesOf(run, j, "text")) = 1
                             /\ LinesOf(run, j, "tail") = {}
                             /\ \A n \in LinesOf(run, j, "text") :
                                    run.result[n] = <<>>
                             /\ run.at # j
                             /\ \A d \in Descendants(Sec(k), j) :
                                    (run.err = NoError \/ d <= run.at) =>
                                        /\ d <= Len(run.visited)
                                        /\ run.visited[d] = d

C5_Witness ==
    \E k \in Processed :
        /\ IsDiv(k)
        /\ Succeeded(k)
        /\ \E j \in 1..Len(Sec(k)) :
            /\ Sec(k)[j].tag = TEI \o "p"
            /\ Descendants(Sec(k), j) # {}
            /\ \E d \in Descendants(Sec(k), j) :
                    LinesOf(runs[k], d, "text") # {}

(***************************************************************************)
(* C6: the output file is written only after extraction returned 200,     *)
(* the document had one text and one body element, every section was      *)
(* linearized without raising, and the response had exactly one candidate *)
(* with exactly one text part; a failed step ends the run, nothing later  *)
(* runs, each service is called at most once.                             *)
(***************************************************************************)
AllLinearized ==
    /\ Len(runs) = Len(body_element)
    /\ Len(rough_sections) = Len(body_element)
    /\ \A k \in Processed : Succeeded(k)

Extracted == grobid_calls = 1 /\ status = 200

WellShaped == doc.ntext = 1 /\ doc.nbody = 1 /\ body_element = doc.body

OneTextPart ==
    /\ response.candidates # None
    /\ Len(response.candidates.val) = 1
    /\ response.candidates.val[1].content # None
    /\ Len(response.candidates.val[1].content.val) = 1
    /\ response.candidates.val[1].content.val[1].text # None

C6_WriteOnlyAfterAllSteps ==
    /\ grobid_calls <= 1
    /\ gemini_calls <= 1
    /\ output_file # None =>
          Extracted /\ WellShaped /\ AllLinearized /\ gemini_calls = 1
          /\ OneTextPart /\ error = NoError /\ pc = "saved"
    /\ gemini_calls = 1 => Extracted /\ WellShaped /\ AllLinearized
    /\ Len(runs) > 0 => Extracted /\ WellShaped
    /\ error # NoError => pc = "aborted" /\ output_file = None
    /\ (\E k \in Processed : ~Succeeded(k)) =>
          /\ pc = "aborted"
          /\ Len(runs) = Len(rough_sections) + 1
          /\ \A k \in 1..Len(rough_sections) : Succeeded(k)
          /\ gemini_calls = 0
          /\ contents = None
    /\ pc = "aborted" => ~ENABLED Next

C6_Witness ==
    /\ pc = "saved"
    /\ output_file = Some(<<"r">>)
    /\ rough_text # <<>>

(***************************************************************************)
(* C7: a visited ref with type "bibr" gives no line for its own text, its *)
(* tail is emitted when non-blank, and its descendants are still visited; *)
(* any other ref is an ordinary node whose non-blank text is emitted.     *)
(***************************************************************************)
C7_BibReference ==
    \A k \in Processed :
        IsDiv(k) =>
            \A i \in 1..Len(runs[k].visited) :
                LET run == runs[k]
                    j == run.visited[i]
                    element == Sec(k)[j]
                    textLines == LinesOf(run, j, "text")
                    tailLines == LinesOf(run, j, "tail")
                IN  element.tag = TEI \o "ref" =>
                        /\ run.at # j
                        /\ IF Blank(element.tail) THEN tailLines = {}
                           ELSE /\ Cardinality(tailLines) = 1
                                /\ \A n \in tailLines :
                                    run.result[n] = strip(element.tail.val)
                        /\ IF element.type = Attr("bibr")
                           THEN /\ textLines = {}
                                /\ \A d \in Descendants(Sec(k), j) :
                                    (run.err = NoError \/ d <= run.at) =>
                                        /\ d <= Len(run.visited)
                                        /\ run.visited[d] = d
                           ELSE IF Blank(element.text) THEN textLines = {}
                           ELSE /\ Cardinality(textLines) = 1
                                /\ \A n \in textLines :
                                    run.result[n] = strip(element.text.val)

C7_Witness ==
    \E k \in Processed :
        /\ IsDiv(k)
        /\ Succeeded(k)
        /\ \E j \in 1..Len(Sec(k)) :
            /\ Sec(k)[j].tag = TEI \o "ref"
            /\ Sec(k)[j].type = Attr("bibr")
            /\ ~Blank(Sec(k)[j].text)
            /\ LinesOf(runs[k], j, "tail") # {}
            /\ \E d \in Descendants(Sec(k), j) :
                /\ Sec(k)[d].tag = TEI \o "ref"
                /\ Sec(k)[d].type = NoAttr
                /\ LinesOf(runs[k], d, "text") # {}

(***************************************************************************)
(* C8: a note or figure section returns no lines and visits no element;   *)
(* a div section is traversed from its own element; any other section tag *)
(* raises "unexpected section tag" and the run is aborted.                *)
(***************************************************************************)
C8_SectionDispatch ==
    /\ \A k \in Processed :
        IF Sec(k)[1].tag \in {TEI \o "note", TEI \o "figure"}
        THEN /\ Succeeded(k)
             /\ runs[k].visited = <<>>
             /\ runs[k].result = <<>>
             /\ k <= Len(rough_sections)
             /\ rough_sections[k] = <<>>
        ELSE IF Sec(k)[1].tag = TEI \o "div"
        THEN /\ runs[k].visited # <<>>
             /\ runs[k].visited[1] = 1
             /\ runs[k].err \in {NoError, "AssertionError"}
        ELSE /\ runs[k].err = "ValueError"
             /\ runs[k].visited = <<>>
             /\ pc = "aborted"
             /\ error = "ValueError"
             /\ gemini_calls = 0
             /\ output_file = None
    /\ Assembled =>
        \A k \in 1..Len(body_element) :
            Sec(k)[1].tag \in {TEI \o "note", TEI \o "figure", TEI \o "div"}

C8_Witness ==
    /\ Len(runs) = 2
    /\ Sec(1)[1].tag = TEI \o "note"
    /\ Len(Sec(1)) = 2
    /\ Sec(1)[2].tag = TEI \o "head"
    /\ Sec(1)[2].text = None
    /\ Succeeded(1)
    /\ Sec(2)[1].tag = "div"
    /\ runs[2].err = "ValueError"
    /\ pc = "aborted"

(***************************************************************************)
(* C9: a visited heading or formula with non-blank text gives exactly one *)
(* line for its text, "[[HEADING: t]]" or "[[FORMULA: t]]", t being the   *)
(* element's own text without leading and trailing whitespace.            *)
(***************************************************************************)
C9_Placeholder ==
    /\ \A k \in Processed :
        IsDiv(k) =>
            \A i \in 1..Len(runs[k].visited) :
                LET run == runs[k]
                    j == run.visited[i]
                    element == Sec(k)[j]
                    opening == IF element.tag = TEI \o "head"
                               THEN "[[HEADING: " ELSE "[[FORMULA: "
                IN  (/\ element.tag \in {TEI \o "head", TEI \o "formula"}
                     /\ ~Blank(element.text))
                    => /\ Cardinality(LinesOf(run, j, "text")) = 1
                       /\ \A n \in LinesOf(run, j, "text") :
                            /\ run.result[n] =
                                 <<opening>> \o strip(element.text.val)
                                             \o <<"]]">>
                            /\ Head(strip(element.text.val)) \notin Whitespace
    /\ (body_element = <<PlaceholderSection>> /\ Len(runs) = 1) =>
        /\ Succeeded(1)
        /\ FlatLines(runs[1].result) =
              <<"[[HEADING: IV. Data Analysis]]", "[[FORMULA: E = m c 2]]">>

C9_Witness ==
    \E k \in Processed :
        /\ IsDiv(k)
        /\ Succeeded(k)
        /\ Len(Sec(k)) = 3
        /\ Sec(k)[2].tag = TEI \o "head"
        /\ Sec(k)[2].text = TextA
        /\ Sec(k)[3].depth = 2
        /\ Sec(k)[3].tag = TEI \o "s"
        /\ Sec(k)[3].text = TextA
        /\ FlatLines(runs[k].result) = <<"[[HEADING: a]]", "a">>

(***************************************************************************)
(* C10: in the output of a div that linearizes, every line is an empty    *)
(* line of a p, a placeholder, or a non-empty fragment without leading or *)
(* trailing whitespace; there are as many empty lines as p elements       *)
(* visited; no absent or blank text or tail produces a line.              *)
(***************************************************************************)
C10_OutputLines ==
    \A k \in Processed :
        (IsDiv(k) /\ Succeeded(k)) =>
            LET run == runs[k]
                section == Sec(k)
            IN  /\ \A n \in 1..Len(run.result) :
                    LET j == run.origin[n][1]
                        slot == run.origin[n][2]
                        line == run.result[n]
                    IN  \/ /\ line = <<>>
                           /\ section[j].tag = TEI \o "p"
                           /\ slot = "text"
                        \/ /\ line # <<>>
                           /\ section[j].tag # TEI \o "p"
                           /\ Head(line) \notin Whitespace
                           /\ line[Len(line)] \notin Whitespace
                           /\ ~Blank(IF slot = "text" THEN section[j].text
                                     ELSE section[j].tail)
                /\ Cardinality({n \in 1..Len(run.result) :
                                    run.result[n] = <<>>})
                   = Cardinality({i \in 1..Len(run.visited) :
                        section[run.visited[i]].tag = TEI \o "p"})

====
